---------------------------- MODULE Spec2Model ----------------------------
(***************************************************************************)
(* Model of the Node installer create-agent-conventions                    *)
(* (packages/cli/src/index.js): one run of main(), from the parsed         *)
(* command-line flags to the final summary, with the resolver fetchFile    *)
(* and the index generator generateSkillFile as steps of the run; and, in  *)
(* the last part, of the shell installer install.sh.                       *)
(***************************************************************************)
EXTENDS Integers, Sequences, FiniteSets, TLC

(***************************************************************************)
(* Bounds of the model.                                                    *)
(***************************************************************************)
\* at most this many I/O operations (read, fetch, mkdir, write) fail in a run
MaxFaults == 2

\* a document given to generateSkillFile has at most this many lines
MaxDocLen == 5

(***************************************************************************)
(* Program constants.                                                      *)
(***************************************************************************)
\* Strings the program takes apart or builds (paths, URLs, messages) are
\* sequences of tokens: "languages/go.md" is <<"languages", "/", "go", ".md">>,
\* concatenation is \o, and the empty string (falsy, like null) is <<>>.
Null == "null"

REPO_URL == <<"https://raw.githubusercontent.com/your-org/agent-conventions/main">>

\* path.join(__dirname, '..', 'templates')
TEMPLATES == <<"<package>", "/", "templates">>

\* process.env.HOME of the invoking user
HOME == "/home/user"

TARGETS ==
  [claude |-> [path |-> <<"~", "/", ".claude/skills/agent-conventions">>, name |-> "Claude Code"],
   codex  |-> [path |-> <<"~", "/", ".codex/skills/agent-conventions">>, name |-> "Codex / ChatGPT"],
   cursor |-> [path |-> <<"~", "/", ".cursor/skills/agent-conventions">>, name |-> "Cursor"],
   agents |-> [path |-> <<"~", "/", ".agents/conventions">>, name |-> "Generic Agents"]]

\* OPTIONS with a language that FILE_PATHS does not list
OPTIONS_Rust ==
  [languages |->
     << [value |-> "typescript", title |-> "TypeScript"],
        [value |-> "javascript", title |-> "JavaScript"],
        [value |-> "php",        title |-> "PHP"],
        [value |-> "python",     title |-> "Python"],
        [value |-> "java",       title |-> "Java"],
        [value |-> "csharp",     title |-> "C#"],
        [value |-> "go",         title |-> "Go"],
        [value |-> "rust",       title |-> "Rust"] >>,
   frontendFrameworks |->
     << [value |-> "react",   title |-> "React"],
        [value |-> "nextjs",  title |-> "Next.js"],
        [value |-> "vue",     title |-> "Vue"],
        [value |-> "angular", title |-> "Angular"] >>,
   backendFrameworks |->
     << [value |-> "laravel", title |-> "Laravel"],
        [value |-> "symfony", title |-> "Symfony"],
        [value |-> "django",  title |-> "Django"],
        [value |-> "spring",  title |-> "Spring Boot"],
        [value |-> "nestjs",  title |-> "NestJS"],
        [value |-> "rails",   title |-> "Ruby on Rails"],
        [value |-> "dotnet",  title |-> ".NET"] >>]

OPTIONS ==
  [languages |->
     << [value |-> "typescript", title |-> "TypeScript"],
        [value |-> "javascript", title |-> "JavaScript"],
        [value |-> "php",        title |-> "PHP"],
        [value |-> "python",     title |-> "Python"],
        [value |-> "java",       title |-> "Java"],
        [value |-> "csharp",     title |-> "C#"],
        [value |-> "go",         title |-> "Go"] >>,
   frontendFrameworks |->
     << [value |-> "react",   title |-> "React"],
        [value |-> "nextjs",  title |-> "Next.js"],
        [value |-> "vue",     title |-> "Vue"],
        [value |-> "angular", title |-> "Angular"] >>,
   backendFrameworks |->
     << [value |-> "laravel", title |-> "Laravel"],
        [value |-> "symfony", title |-> "Symfony"],
        [value |-> "django",  title |-> "Django"],
        [value |-> "spring",  title |-> "Spring Boot"],
        [value |-> "nestjs",  title |-> "NestJS"],
        [value |-> "rails",   title |-> "Ruby on Rails"],
        [value |-> "dotnet",  title |-> ".NET"] >>]

\* FILE_PATHS in which two languages share one file
FILE_PATHS_Clash ==
  [core       |-> <<"SKILL", ".md">>,
   api        |-> <<"api", ".md">>,
   typescript |-> <<"languages", "/", "typescript", ".md">>,
   javascript |-> <<"languages", "/", "javascript", ".md">>,
   php        |-> <<"languages", "/", "php", ".md">>,
   python     |-> <<"languages", "/", "python", ".md">>,
   java       |-> <<"languages", "/", "java", ".md">>,
   csharp     |-> <<"languages", "/", "csharp", ".md">>,
   go         |-> <<"languages", "/", "typescript", ".md">>,
   react      |-> <<"frameworks", "/", "frontend", "/", "react", ".md">>,
   nextjs     |-> <<"frameworks", "/", "frontend", "/", "nextjs", ".md">>,
   vue        |-> <<"frameworks", "/", "frontend", "/", "vue", ".md">>,
   angular    |-> <<"frameworks", "/", "frontend", "/", "angular", ".md">>,
   laravel    |-> <<"frameworks", "/", "backend", "/", "laravel", ".md">>,
   symfony    |-> <<"frameworks", "/", "backend", "/", "symfony", ".md">>,
   django     |-> <<"frameworks", "/", "backend", "/", "django", ".md">>,
   spring     |-> <<"frameworks", "/", "backend", "/", "spring", ".md">>,
   nestjs     |-> <<"frameworks", "/", "backend", "/", "nestjs", ".md">>,
   rails      |-> <<"frameworks", "/", "backend", "/", "rails", ".md">>,
   dotnet     |-> <<"frameworks", "/", "backend", "/", "dotnet", ".md">>]

FILE_PATHS ==
  [core       |-> <<"SKILL", ".md">>,
   api        |-> <<"api", ".md">>,
   typescript |-> <<"languages", "/", "typescript", ".md">>,
   javascript |-> <<"languages", "/", "javascript", ".md">>,
   php        |-> <<"languages", "/", "php", ".md">>,
   python     |-> <<"languages", "/", "python", ".md">>,
   java       |-> <<"languages", "/", "java", ".md">>,
   csharp     |-> <<"languages", "/", "csharp", ".md">>,
   go         |-> <<"languages", "/", "go", ".md">>,
   react      |-> <<"frameworks", "/", "frontend", "/", "react", ".md">>,
   nextjs     |-> <<"frameworks", "/", "frontend", "/", "nextjs", ".md">>,
   vue        |-> <<"frameworks", "/", "frontend", "/", "vue", ".md">>,
   angular    |-> <<"frameworks", "/", "frontend", "/", "angular", ".md">>,
   laravel    |-> <<"frameworks", "/", "backend", "/", "laravel", ".md">>,
   symfony    |-> <<"frameworks", "/", "backend", "/", "symfony", ".md">>,
   django     |-> <<"frameworks", "/", "backend", "/", "django", ".md">>,
   spring     |-> <<"frameworks", "/", "backend", "/", "spring", ".md">>,
   nestjs     |-> <<"frameworks", "/", "backend", "/", "nestjs", ".md">>,
   rails      |-> <<"frameworks", "/", "backend", "/", "rails", ".md">>,
   dotnet     |-> <<"frameworks", "/", "backend", "/", "dotnet", ".md">>]

(***************************************************************************)
(* Helpers.                                                                *)
(***************************************************************************)
Range(s) == {s[i] : i \in 1..Len(s)}

\* OPTIONS.<category>.map(o => o.value)
Values(opts) == [i \in 1..Len(opts) |-> opts[i].value]

\* FILE_PATHS[key]: undefined (falsy, here <<>>) for a key the table does not hold
Lookup(key) == IF key \in DOMAIN FILE_PATHS THEN FILE_PATHS[key] ELSE <<>>

\* p.replace(/^~/, process.env.HOME)
\* expandPath whose regular expression is global and not anchored: every tilde
\* is replaced
expandPath_EveryTilde(p) ==
  IF Len(p) = 0 THEN p
  ELSE LET rec[i \in 0..Len(p)] ==
             IF i = 0 THEN <<>>
             ELSE Append(rec[i - 1], IF p[i] = "~" THEN HOME ELSE p[i])
       IN rec[Len(p)]

expandPath(p) == IF Len(p) > 0 /\ p[1] = "~" THEN <<HOME>> \o Tail(p) ELSE p

\* path.join(installPath, filePath)
Join(dir, rel) == dir \o <<"/">> \o rel

\* path.dirname(p): what precedes the last separator
RECURSIVE Dirname(_)
Dirname(p) ==
  IF Len(p) = 0 THEN <<".">>
  ELSE IF p[Len(p)] = "/" THEN SubSeq(p, 1, Len(p) - 1)
  ELSE Dirname(SubSeq(p, 1, Len(p) - 1))

\* the local copy of a catalog file: path.join(__dirname, '..', 'templates', filePath)
LocalPath(filePath) == Join(TEMPLATES, filePath)

\* `${REPO_URL}/${filePath}`
RemoteUrl(filePath) == REPO_URL \o <<"/">> \o filePath

\* the two headings the regular expression of generateSkillFile names
StartMarker == "## Stack-Specific References"

EndMarker == "## Self-Healing"

\* a heading of the level of the two, with another name
OtherHeading == "## Core Philosophy"

\* SKILL.md of the repository, as the lines and blocks generateSkillFile tells
\* apart: front matter, title, sections, the reference section with the links
\* of every stack, and the section 'Self-Healing Workflow' that ends the file
SKILL_MD ==
  << "---\nname: agent-conventions\n---", "# Agent Conventions", OtherHeading,
     "## Universal Rules (All Languages)", StartMarker,
     "### Frontend Frameworks ... ### General", EndMarker, " Workflow",
     "When generating or reviewing code, follow this loop:" >>

\* the text of a catalog file; the files besides SKILL.md are opaque
TextOf(filePath) ==
  IF filePath = <<"SKILL", ".md">> THEN SKILL_MD ELSE <<"conventions">>

\* what fs.readFile(localPath, 'utf-8') returns: the text of the bundled copy
LocalContent(filePath) ==
  [src |-> "local", of |-> LocalPath(filePath), text |-> TextOf(filePath)]

\* what response.text() returns: the payload served at the URL
RemoteContent(filePath) ==
  [src |-> "remote", of |-> RemoteUrl(filePath), text |-> TextOf(filePath)]

\* response.ok: the status is in the range 200-299
ResponseOk(status) == status >= 200 /\ status <= 299

\* HttpError with a fixed message, the status left out
HttpError_NoStatus(status) == <<"HTTP error">>

\* new Error(`HTTP ${response.status}`).message
HttpError(status) == <<"HTTP ", ToString(status)>>

\* the TypeError a rejected fetch() carries (no connection, DNS failure)
TransportError == <<"fetch failed">>

\* the message of a rejected fs.mkdir / fs.writeFile, which names the path
FsError(dest) == <<"EACCES: permission denied, open ">> \o dest

\* the TypeError of expandPath(undefined)
ReplaceOfUndefined == <<"Cannot read properties of undefined (reading 'replace')">>

(***************************************************************************)
(* Inputs of a run.                                                        *)
(***************************************************************************)
\* values given to --target: none, a known target
TargetArgs == {Null, "cursor"}

\* values given to --path: none, a path under the home directory
PathArgs == {<<>>, <<"~", "/", "my-rules">>}

\* answers to the select prompt 'Where to install?'
TargetChoices == {"claude", "custom"}

\* answers to the text prompt 'Enter custom path:'
CustomPaths == {<<".", "/", "my-rules">>}

\* HTTP statuses the remote answers with
Statuses == {200, 404}

\* answers to the three multiselect prompts, each as the set of choices ticked:
\* nothing, one language, several categories, several keys of a category
TickSets ==
  { {},
    {"go"},
    {"typescript", "react"},
    {"python", "vue", "django"},
    {"php", "csharp", "symfony", "laravel"} }

\* a multiselect prompt returns the values of the ticked choices, in the
\* order of the choices
Ticked(opts, T) == SelectSeq(Values(opts), LAMBDA v : v \in T)

\* the names of the four questions of the selection prompt, in the order asked
SelectionQuestions == <<"languages", "frontendFrameworks", "backendFrameworks", "includeApi">>

(***************************************************************************)
(* State.                                                                  *)
(***************************************************************************)
VARIABLES
  flags,           \* flags parsed from process.argv
  selections,      \* main: selections
  asked,           \* the prompts shown to the user so far
  installPath,     \* main: installPath
  filesToInstall,  \* main: filesToInstall
  dirs,            \* directories that exist under the destination
  files,           \* destination files: path -> content
  idx,             \* position of the for-of loop in filesToInstall
  installed,       \* main: installed
  report,          \* the per-item lines printed by the loop
  caller,          \* who awaits fetchFile: the loop or generateSkillFile
  curPath,         \* fetchFile: filePath
  io,              \* reads and requests issued by the running fetchFile call
  content,         \* the value fetchFile returned
  err,             \* message of the error thrown last
  faults,          \* number of failed I/O operations so far
  pc,              \* position of the run
  previous,        \* how the preceding run against this destination ended
  sh               \* install.sh: the state of a run of the shell installer

vars == <<flags, selections, asked, installPath, filesToInstall, dirs, files, idx,
          installed, report, caller, curPath, io, content, err, faults, pc, previous, sh>>

NoContent == [src |-> "none", of |-> <<>>, text |-> <<>>]

\* install.sh is not run
NoShell == [pc |-> "none"]

\* no run precedes this one
NoRun ==
  [files |-> <<>>, dirs |-> {}, report |-> <<>>, caller |-> "none", io |-> <<>>,
   content |-> NoContent, err |-> <<>>, pc |-> "none"]

Init ==
  /\ flags \in [target : TargetArgs, path : PathArgs, all : BOOLEAN, help : BOOLEAN]
  /\ selections = [languages |-> <<>>, frontendFrameworks |-> <<>>,
                   backendFrameworks |-> <<>>, includeApi |-> TRUE,
                   target |-> flags.target, customPath |-> flags.path]
  /\ asked = <<>>
  /\ installPath = <<>>
  /\ filesToInstall = <<>>
  /\ dirs = {}
  /\ files = <<>>
  /\ idx = 1
  /\ installed = 0
  /\ report = <<>>
  /\ caller = "none"
  /\ curPath = <<>>
  /\ io = <<>>
  /\ content = NoContent
  /\ err = <<>>
  /\ faults = 0
  /\ pc = "start"
  /\ previous = NoRun
  /\ sh = NoShell

(***************************************************************************)
(* main: help, selection, install path.                                    *)
(***************************************************************************)
\* if (flags.help) { showHelp(); process.exit(0) }
Help ==
  /\ pc = "start"
  /\ flags.help
  /\ pc' = "exit0"
  /\ UNCHANGED <<sh, previous, flags, selections, asked, installPath, filesToInstall, dirs, files,
                 idx, installed, report, caller, curPath, io, content, err, faults>>

\* SelectAll that leaves the backend frameworks out
SelectAll_NoBackend ==
  /\ pc = "start"
  /\ ~flags.help
  /\ flags.all
  /\ selections' = [selections EXCEPT
        !.languages = Values(OPTIONS.languages),
        !.frontendFrameworks = Values(OPTIONS.frontendFrameworks)]
  /\ pc' = "path"
  /\ UNCHANGED <<sh, previous, flags, asked, installPath, filesToInstall, dirs, files,
                 idx, installed, report, caller, curPath, io, content, err, faults>>

\* if (flags.all): every option of the three categories, no prompt
SelectAll ==
  /\ pc = "start"
  /\ ~flags.help
  /\ flags.all
  /\ selections' = [selections EXCEPT
        !.languages = Values(OPTIONS.languages),
        !.frontendFrameworks = Values(OPTIONS.frontendFrameworks),
        !.backendFrameworks = Values(OPTIONS.backendFrameworks)]
  /\ pc' = "path"
  /\ UNCHANGED <<sh, previous, flags, asked, installPath, filesToInstall, dirs, files,
                 idx, installed, report, caller, curPath, io, content, err, faults>>

\* else: the four interactive questions, answered; Object.assign(selections, response)
Prompt ==
  /\ pc = "start"
  /\ ~flags.help
  /\ ~flags.all
  /\ \E T \in TickSets, api \in BOOLEAN :
        selections' = [selections EXCEPT
           !.languages = Ticked(OPTIONS.languages, T),
           !.frontendFrameworks = Ticked(OPTIONS.frontendFrameworks, T),
           !.backendFrameworks = Ticked(OPTIONS.backendFrameworks, T),
           !.includeApi = api]
  /\ asked' = asked \o SelectionQuestions
  /\ pc' = "path"
  /\ UNCHANGED <<sh, previous, flags, installPath, filesToInstall, dirs, files,
                 idx, installed, report, caller, curPath, io, content, err, faults>>

\* onCancel of the selection prompt, at any of its questions: process.exit(0)
PromptCancel ==
  /\ pc = "start"
  /\ ~flags.help
  /\ ~flags.all
  /\ \E n \in 1..Len(SelectionQuestions) :
        asked' = asked \o SubSeq(SelectionQuestions, 1, n)
  /\ pc' = "exit0"
  /\ UNCHANGED <<sh, previous, flags, selections, installPath, filesToInstall, dirs, files,
                 idx, installed, report, caller, curPath, io, content, err, faults>>

\* the install path is given by --path or by a known --target
PathFromFlags ==
  /\ pc = "path"
  /\ \/ /\ selections.customPath # <<>>
        /\ installPath' = expandPath(selections.customPath)
     \/ /\ selections.customPath = <<>>
        /\ selections.target # Null
        /\ selections.target \in DOMAIN TARGETS
        /\ installPath' = expandPath(TARGETS[selections.target].path)
  /\ pc' = "collect"
  /\ UNCHANGED <<sh, previous, flags, selections, asked, filesToInstall, dirs, files,
                 idx, installed, report, caller, curPath, io, content, err, faults>>

\* neither: the select prompt 'Where to install?'
NeedsTargetPrompt ==
  /\ selections.customPath = <<>>
  /\ ~(selections.target # Null /\ selections.target \in DOMAIN TARGETS)

\* PromptTarget that asks nothing and takes the claude target
PromptTarget_Default ==
  /\ pc = "path"
  /\ NeedsTargetPrompt
  /\ installPath' = expandPath(TARGETS.claude.path)
  /\ pc' = "collect"
  /\ UNCHANGED <<sh, previous, flags, selections, asked, filesToInstall, dirs, files,
                 idx, installed, report, caller, curPath, io, content, err, faults>>

PromptTarget ==
  /\ pc = "path"
  /\ NeedsTargetPrompt
  /\ asked' = Append(asked, "target")
  /\ \E choice \in TargetChoices :
        IF choice = "custom"
        THEN pc' = "custom" /\ UNCHANGED installPath
        ELSE pc' = "collect" /\ installPath' = expandPath(TARGETS[choice].path)
  /\ UNCHANGED <<sh, previous, flags, selections, filesToInstall, dirs, files,
                 idx, installed, report, caller, curPath, io, content, err, faults>>

\* onCancel of the target prompt: process.exit(0)
PromptTargetCancel ==
  /\ pc = "path"
  /\ NeedsTargetPrompt
  /\ asked' = Append(asked, "target")
  /\ pc' = "exit0"
  /\ UNCHANGED <<sh, previous, flags, selections, installPath, filesToInstall, dirs, files,
                 idx, installed, report, caller, curPath, io, content, err, faults>>

\* the text prompt 'Enter custom path:' (no onCancel): an answer, or none and
\* expandPath(undefined) throws out of main
\* PromptCustomPath that goes on with an empty path when no answer is given
PromptCustomPath_GoesOn ==
  /\ pc = "custom"
  /\ asked' = Append(asked, "path")
  /\ \/ \E answer \in CustomPaths :
           /\ installPath' = expandPath(answer)
           /\ pc' = "collect"
     \/ /\ pc' = "collect"
        /\ UNCHANGED installPath
  /\ UNCHANGED <<sh, previous, flags, selections, filesToInstall, dirs, files,
                 idx, installed, report, caller, curPath, io, content, err, faults>>

PromptCustomPath ==
  /\ pc = "custom"
  /\ asked' = Append(asked, "path")
  /\ \/ \E answer \in CustomPaths :
           /\ installPath' = expandPath(answer)
           /\ pc' = "collect"
           /\ UNCHANGED err
     \/ /\ err' = ReplaceOfUndefined
        /\ pc' = "crashed"
        /\ UNCHANGED installPath
  /\ UNCHANGED <<sh, previous, flags, selections, filesToInstall, dirs, files,
                 idx, installed, report, caller, curPath, io, content, faults>>


(***************************************************************************)
(* main: the files to install and the destination directories.             *)
(***************************************************************************)
\* Build that pushes 'core' after the optional 'api'
Build_ApiFirst(sel) ==
  (IF sel.includeApi THEN <<"api">> ELSE <<>>) \o <<"core">>
    \o sel.languages \o sel.frontendFrameworks \o sel.backendFrameworks

\* Build that spreads the backend frameworks before the frontend ones
Build_BackendFirst(sel) ==
  <<"core">> \o (IF sel.includeApi THEN <<"api">> ELSE <<>>)
    \o sel.languages \o sel.backendFrameworks \o sel.frontendFrameworks

\* Build that spreads the languages twice
Build_LanguagesTwice(sel) ==
  <<"core">> \o (IF sel.includeApi THEN <<"api">> ELSE <<>>)
    \o sel.languages \o sel.languages \o sel.frontendFrameworks \o sel.backendFrameworks

\* const filesToInstall = ['core']; if (includeApi) push('api');
\* push(...languages, ...frontendFrameworks, ...backendFrameworks)
Build(sel) ==
  <<"core">> \o (IF sel.includeApi THEN <<"api">> ELSE <<>>)
    \o sel.languages \o sel.frontendFrameworks \o sel.backendFrameworks

Collect ==
  /\ pc = "collect"
  /\ filesToInstall' = Build(selections)
  /\ pc' = "mkdir"
  /\ UNCHANGED <<sh, previous, flags, selections, asked, installPath, dirs, files,
                 idx, installed, report, caller, curPath, io, content, err, faults>>

\* RootDirs without the directory of the backend frameworks
RootDirs_NoBackend(root) ==
  << root,
     Join(root, <<"languages">>),
     Join(root, <<"frameworks", "/", "frontend">>) >>

\* the four directories main creates, in the order of its fs.mkdir calls
RootDirs(root) ==
  << root,
     Join(root, <<"languages">>),
     Join(root, <<"frameworks", "/", "frontend">>),
     Join(root, <<"frameworks", "/", "backend">>) >>

\* Mkdir that goes on to the loop after a rejected mkdir
Mkdir_Ignore ==
  /\ pc = "mkdir"
  /\ \E n \in 0..Len(RootDirs(installPath)) :
        /\ dirs' = dirs \cup {RootDirs(installPath)[i] : i \in 1..n}
        /\ IF n = Len(RootDirs(installPath))
           THEN pc' = "loop" /\ UNCHANGED <<err, faults>>
           ELSE /\ faults < MaxFaults
                /\ faults' = faults + 1
                /\ err' = FsError(RootDirs(installPath)[n + 1])
                /\ pc' = "loop"
  /\ UNCHANGED <<sh, previous, flags, selections, asked, installPath, filesToInstall, files,
                 idx, installed, report, caller, curPath, io, content>>

\* await fs.mkdir(..., { recursive: true }), four times; a rejected mkdir
\* throws out of main
Mkdir ==
  /\ pc = "mkdir"
  /\ \E n \in 0..Len(RootDirs(installPath)) :
        /\ dirs' = dirs \cup {RootDirs(installPath)[i] : i \in 1..n}
        /\ IF n = Len(RootDirs(installPath))
           THEN pc' = "loop" /\ UNCHANGED <<err, faults>>
           ELSE /\ faults < MaxFaults
                /\ faults' = faults + 1
                /\ err' = FsError(RootDirs(installPath)[n + 1])
                /\ pc' = "crashed"
  /\ UNCHANGED <<sh, previous, flags, selections, asked, installPath, filesToInstall, files,
                 idx, installed, report, caller, curPath, io, content>>

(***************************************************************************)
(* main: the loop over filesToInstall.                                     *)
(***************************************************************************)
\* console.log(green check, filePath); installed++   -- then the next key
LoopSuccess ==
  /\ report' = Append(report, [path |-> curPath, ok |-> TRUE, msg |-> <<>>])
  /\ installed' = installed + 1
  /\ idx' = idx + 1
  /\ pc' = "loop"

\* LoopCatch that lets the error unwind main
LoopCatch_Abort(e) ==
  /\ report' = Append(report, [path |-> curPath, ok |-> FALSE, msg |-> e])
  /\ installed' = installed
  /\ idx' = idx
  /\ pc' = "crashed"

\* LoopCatch that counts the failed item as installed
LoopCatch_Counts(e) ==
  /\ report' = Append(report, [path |-> curPath, ok |-> FALSE, msg |-> e])
  /\ installed' = installed + 1
  /\ idx' = idx + 1
  /\ pc' = "loop"

\* LoopCatch that prints nothing
LoopCatch_Silent(e) ==
  /\ report' = report
  /\ installed' = installed
  /\ idx' = idx + 1
  /\ pc' = "loop"

\* LoopCatch that attempts the failed key again
LoopCatch_Retry(e) ==
  /\ report' = Append(report, [path |-> curPath, ok |-> FALSE, msg |-> e])
  /\ installed' = installed
  /\ idx' = idx
  /\ pc' = "loop"

\* catch (error) { console.log(red cross, filePath, error.message) }  -- then
\* the next key
LoopCatch(e) ==
  /\ report' = Append(report, [path |-> curPath, ok |-> FALSE, msg |-> e])
  /\ installed' = installed
  /\ idx' = idx + 1
  /\ pc' = "loop"

\* an error thrown while `caller` awaits: caught by the loop's try, or
\* unwinding generateSkillFile and main to main().catch(console.error)
Thrown(e) ==
  /\ err' = e
  /\ IF caller = "loop"
     THEN LoopCatch(e)
     ELSE pc' = "crashed" /\ UNCHANGED <<report, installed, idx>>

\* for (const key of filesToInstall): the next key; no catalog path: continue;
\* otherwise call fetchFile(filePath)
LoopNext ==
  /\ pc = "loop"
  /\ idx <= Len(filesToInstall)
  /\ LET filePath == Lookup(filesToInstall[idx]) IN
       IF filePath = <<>>
       THEN /\ idx' = idx + 1
            /\ UNCHANGED <<pc, caller, curPath, io>>
       ELSE /\ caller' = "loop"
            /\ curPath' = filePath
            /\ io' = <<>>
            /\ pc' = "local"
            /\ UNCHANGED idx
  /\ UNCHANGED <<sh, previous, flags, selections, asked, installPath, filesToInstall, dirs, files,
                 installed, report, content, err, faults>>

\* the loop is over: call generateSkillFile, which calls fetchFile('SKILL.md')
LoopEnd ==
  /\ pc = "loop"
  /\ idx > Len(filesToInstall)
  /\ caller' = "generate"
  /\ curPath' = <<"SKILL", ".md">>
  /\ io' = <<>>
  /\ pc' = "local"
  /\ UNCHANGED <<sh, previous, flags, selections, asked, installPath, filesToInstall, dirs, files,
                 idx, installed, report, content, err, faults>>

(***************************************************************************)
(* fetchFile.                                                              *)
(***************************************************************************)
\* where the caller resumes with the value fetchFile returned
Resume(c) == IF c = "loop" THEN "write" ELSE "genwrite"

\* LocalRead that goes on to the remote fetch also after a successful read
LocalRead_NoReturn ==
  /\ pc = "local"
  /\ \E ok \in BOOLEAN :
        /\ io' = Append(io, [op |-> "readFile", arg |-> LocalPath(curPath),
                             res |-> IF ok THEN "ok" ELSE "error"])
        /\ IF ok
           THEN /\ content' = LocalContent(curPath)
                /\ pc' = "remote"
                /\ UNCHANGED faults
           ELSE /\ faults < MaxFaults
                /\ faults' = faults + 1
                /\ pc' = "remote"
                /\ UNCHANGED content
  /\ UNCHANGED <<sh, previous, flags, selections, asked, installPath, filesToInstall, dirs, files,
                 idx, installed, report, caller, curPath, err>>

\* try { return await fs.readFile(localPath, 'utf-8') } catch { ... }
LocalRead ==
  /\ pc = "local"
  /\ \E ok \in BOOLEAN :
        /\ io' = Append(io, [op |-> "readFile", arg |-> LocalPath(curPath),
                             res |-> IF ok THEN "ok" ELSE "error"])
        /\ IF ok
           THEN /\ content' = LocalContent(curPath)
                /\ pc' = Resume(caller)
                /\ UNCHANGED faults
           ELSE /\ faults < MaxFaults
                /\ faults' = faults + 1
                /\ pc' = "remote"
                /\ UNCHANGED content
  /\ UNCHANGED <<sh, previous, flags, selections, asked, installPath, filesToInstall, dirs, files,
                 idx, installed, report, caller, curPath, err>>

\* const response = await fetch(url); if (!response.ok) throw new Error(...);
\* return response.text()
RemoteFetch ==
  /\ pc = "remote"
  /\ \/ \E status \in Statuses :
           /\ io' = Append(io, [op |-> "fetch", arg |-> RemoteUrl(curPath),
                                res |-> ToString(status)])
           /\ IF ResponseOk(status)
              THEN /\ content' = RemoteContent(curPath)
                   /\ pc' = Resume(caller)
                   /\ UNCHANGED <<err, faults, report, installed, idx>>
              ELSE /\ faults < MaxFaults
                   /\ faults' = faults + 1
                   /\ Thrown(HttpError(status))
                   /\ UNCHANGED content
     \/ /\ io' = Append(io, [op |-> "fetch", arg |-> RemoteUrl(curPath),
                             res |-> "rejected"])
        /\ faults < MaxFaults
        /\ faults' = faults + 1
        /\ Thrown(TransportError)
        /\ UNCHANGED content
  /\ UNCHANGED <<sh, previous, flags, selections, asked, installPath, filesToInstall, dirs, files,
                 caller, curPath>>

(***************************************************************************)
(* main: writing one item.                                                 *)
(***************************************************************************)
\* WriteFile that appends to a file that exists (flag 'a')
\* WriteFile that keeps a destination file that exists (flag 'wx', the error
\* swallowed) and reports the item as installed
WriteFile_KeepExisting ==
  /\ pc = "write"
  /\ LET destPath == Join(installPath, curPath) IN
       \/ /\ dirs' = dirs \cup {Dirname(destPath)}
          /\ files' = IF destPath \in DOMAIN files THEN files
                      ELSE (destPath :> content) @@ files
          /\ LoopSuccess
          /\ UNCHANGED <<err, faults>>
       \/ /\ faults < MaxFaults
          /\ faults' = faults + 1
          /\ Thrown(FsError(destPath))
          /\ UNCHANGED <<dirs, files>>
  /\ UNCHANGED <<sh, previous, flags, selections, asked, installPath, filesToInstall,
                 caller, curPath, io, content>>

WriteFile_Append ==
  /\ pc = "write"
  /\ LET destPath == Join(installPath, curPath) IN
       \/ /\ dirs' = dirs \cup {Dirname(destPath)}
          /\ files' = (destPath :>
                         IF destPath \in DOMAIN files
                         THEN [content EXCEPT !.text = files[destPath].text \o @]
                         ELSE content) @@ files
          /\ LoopSuccess
          /\ UNCHANGED <<err, faults>>
       \/ /\ faults < MaxFaults
          /\ faults' = faults + 1
          /\ Thrown(FsError(destPath))
          /\ UNCHANGED <<dirs, files>>
  /\ UNCHANGED <<sh, previous, flags, selections, asked, installPath, filesToInstall,
                 caller, curPath, io, content>>

\* await fs.mkdir(path.dirname(destPath), { recursive: true });
\* await fs.writeFile(destPath, content); report and count -- or the catch.
\* The directory exists since Mkdir, so a rejection of either call leaves the
\* destination as it was.
WriteFile ==
  /\ pc = "write"
  /\ LET destPath == Join(installPath, curPath) IN
       \/ /\ dirs' = dirs \cup {Dirname(destPath)}
          /\ files' = (destPath :> content) @@ files
          /\ LoopSuccess
          /\ UNCHANGED <<err, faults>>
       \/ /\ faults < MaxFaults
          /\ faults' = faults + 1
          /\ Thrown(FsError(destPath))
          /\ UNCHANGED <<dirs, files>>
  /\ UNCHANGED <<sh, previous, flags, selections, asked, installPath, filesToInstall,
                 caller, curPath, io, content>>

(***************************************************************************)
(* generateSkillFile.                                                      *)
(***************************************************************************)
\* OPTIONS.<category>.find(o => o.value === v)?.title
TitleOf(opts, v) ==
  IF \E i \in 1..Len(opts) : opts[i].value = v
  THEN opts[CHOOSE i \in 1..Len(opts) : opts[i].value = v].title
  ELSE "undefined"

\* `- **${title}**: See [${dir}${v}.md](${dir}${v}.md)`
\* RefLine whose link target leaves the directory out
RefLine_NoDir(dir, opts, v) ==
  <<"- **", TitleOf(opts, v), "**: See [">> \o dir \o <<v, ".md", "](">>
    \o <<v, ".md", ")">>

RefLine(dir, opts, v) ==
  <<"- **", TitleOf(opts, v), "**: See [">> \o dir \o <<v, ".md", "](">>
    \o dir \o <<v, ".md", ")">>

\* lines.join('\n')
RECURSIVE JoinLines(_)
JoinLines(lines) ==
  IF Len(lines) = 0 THEN <<>>
  ELSE IF Len(lines) = 1 THEN lines[1]
  ELSE lines[1] \o <<"\n">> \o JoinLines(Tail(lines))

frontendRefs(sel) ==
  JoinLines([i \in 1..Len(sel.frontendFrameworks) |->
     RefLine(<<"frameworks", "/", "frontend", "/">>, OPTIONS.frontendFrameworks,
             sel.frontendFrameworks[i])])

backendRefs(sel) ==
  JoinLines([i \in 1..Len(sel.backendFrameworks) |->
     RefLine(<<"frameworks", "/", "backend", "/">>, OPTIONS.backendFrameworks,
             sel.backendFrameworks[i])])

languageRefs(sel) ==
  JoinLines([i \in 1..Len(sel.languages) |->
     RefLine(<<"languages", "/">>, OPTIONS.languages, sel.languages[i])])

\* the first and the last line of the section generateSkillFile writes
SectionIntro ==
  "For detailed conventions per framework or language, read the relevant reference file:"

SectionOutro ==
  "Read the appropriate reference file based on the project's stack before generating code."

\* refSection that lists the languages before the frameworks
refSection_LanguagesFirst(sel) ==
  <<StartMarker, "\n\n", SectionIntro, "\n\n">>
  \o (IF languageRefs(sel) # <<>>
      THEN <<"### Languages", "\n">> \o languageRefs(sel) \o <<"\n\n">> ELSE <<>>)
  \o (IF frontendRefs(sel) # <<>>
      THEN <<"### Frontend Frameworks", "\n">> \o frontendRefs(sel) \o <<"\n\n">> ELSE <<>>)
  \o (IF backendRefs(sel) # <<>>
      THEN <<"### Backend Frameworks", "\n">> \o backendRefs(sel) \o <<"\n\n">> ELSE <<>>)
  \o (IF sel.includeApi
      THEN <<"### General", "\n", "- **", "API / HTTP", "**: See [", "api", ".md",
             "](", "api", ".md", ")", "\n\n">>
      ELSE <<>>)
  \o <<SectionOutro>>

\* refSection that leaves the languages out
refSection_NoLanguages(sel) ==
  <<StartMarker, "\n\n", SectionIntro, "\n\n">>
  \o (IF frontendRefs(sel) # <<>>
      THEN <<"### Frontend Frameworks", "\n">> \o frontendRefs(sel) \o <<"\n\n">> ELSE <<>>)
  \o (IF backendRefs(sel) # <<>>
      THEN <<"### Backend Frameworks", "\n">> \o backendRefs(sel) \o <<"\n\n">> ELSE <<>>)
  \o (IF sel.includeApi
      THEN <<"### General", "\n", "- **", "API / HTTP", "**: See [", "api", ".md",
             "](", "api", ".md", ")", "\n\n">>
      ELSE <<>>)
  \o <<SectionOutro>>

\* const refSection = `## Stack-Specific References ... `: the heading, the
\* intro, a group per non-empty list, the General group if includeApi, the outro
refSection(sel) ==
  <<StartMarker, "\n\n", SectionIntro, "\n\n">>
  \o (IF frontendRefs(sel) # <<>>
      THEN <<"### Frontend Frameworks", "\n">> \o frontendRefs(sel) \o <<"\n\n">> ELSE <<>>)
  \o (IF backendRefs(sel) # <<>>
      THEN <<"### Backend Frameworks", "\n">> \o backendRefs(sel) \o <<"\n\n">> ELSE <<>>)
  \o (IF languageRefs(sel) # <<>>
      THEN <<"### Languages", "\n">> \o languageRefs(sel) \o <<"\n\n">> ELSE <<>>)
  \o (IF sel.includeApi
      THEN <<"### General", "\n", "- **", "API / HTTP", "**: See [", "api", ".md",
             "](", "api", ".md", ")", "\n\n">>
      ELSE <<>>)
  \o <<SectionOutro>>

\* the positions at which /## Stack-Specific References[\s\S]*?(?=## Self-Healing)/
\* matches: a start heading with an end heading somewhere after it
MatchStarts(text) ==
  {i \in 1..Len(text) :
     text[i] = StartMarker /\ \E j \in (i + 1)..Len(text) : text[j] = EndMarker}

\* the end of the lazy match that starts at i: the first end heading after i
MatchEnd(text, i) ==
  CHOOSE j \in (i + 1)..Len(text) :
     /\ text[j] = EndMarker
     /\ \A k \in (i + 1)..(j - 1) : text[k] # EndMarker

\* the leftmost position of a set of positions
First(S) == CHOOSE i \in S : \A k \in S : i <= k

\* replace that empties a document in which the expression does not match
replace_Strict(text, replacement) ==
  IF MatchStarts(text) = {} THEN <<>>
  ELSE LET i == First(MatchStarts(text)) IN
         SubSeq(text, 1, i - 1) \o replacement
           \o SubSeq(text, MatchEnd(text, i), Len(text))

\* replace that puts the replacement before the match and keeps the match
replace_Insert(text, replacement) ==
  IF MatchStarts(text) = {} THEN text
  ELSE LET i == First(MatchStarts(text)) IN
         SubSeq(text, 1, i - 1) \o replacement \o SubSeq(text, i, Len(text))

\* replace that ends the match before the next heading of any name
replace_NextHeading(text, replacement) ==
  LET S == {i \in 1..Len(text) :
              text[i] = StartMarker
              /\ \E j \in (i + 1)..Len(text) : text[j] \in {StartMarker, EndMarker, OtherHeading}}
  IN IF S = {} THEN text
     ELSE LET i == First(S)
              j == First({k \in (i + 1)..Len(text) :
                            text[k] \in {StartMarker, EndMarker, OtherHeading}})
          IN SubSeq(text, 1, i - 1) \o replacement \o SubSeq(text, j, Len(text))

\* skillContent.replace(regex, replacement) with a regular expression that is
\* not global: the leftmost match, from its start heading to just before the
\* first end heading after it, is replaced; without a match the text is returned
replace(text, replacement) ==
  IF MatchStarts(text) = {} THEN text
  ELSE LET i == First(MatchStarts(text)) IN
         SubSeq(text, 1, i - 1) \o replacement
           \o SubSeq(text, MatchEnd(text, i), Len(text))

\* skillContent with its reference section replaced by refSection + '\n\n'
Regenerate(doc, sel) ==
  [doc EXCEPT !.text = replace(@, refSection(sel) \o <<"\n\n">>)]

\* await fs.writeFile(path.join(installPath, 'SKILL.md'), skillContent); back
\* in main, the summary is printed
GenerateWrite ==
  /\ pc = "genwrite"
  /\ LET destPath == Join(installPath, <<"SKILL", ".md">>) IN
       \/ /\ files' = (destPath :> Regenerate(content, selections)) @@ files
          /\ pc' = "done"
          /\ UNCHANGED <<err, faults>>
       \/ /\ faults < MaxFaults
          /\ faults' = faults + 1
          /\ err' = FsError(destPath)
          /\ pc' = "crashed"
          /\ UNCHANGED files
  /\ UNCHANGED <<sh, previous, flags, selections, asked, installPath, filesToInstall, dirs,
                 idx, installed, report, caller, curPath, io, content>>

(***************************************************************************)
(* The end of the process.                                                 *)
(***************************************************************************)
\* ExitStatus with a failing status for a rejected main()
ExitStatus_RejectionFails(p) ==
  CASE p = "exit0"   -> 0
    [] p = "done"    -> 0
    [] p = "crashed" -> 1

\* the exit status of the process: process.exit(0) after the help text or a
\* cancelled prompt; main() resolved after the summary; main() rejected, which
\* main().catch(console.error) prints and nothing else, so that the process
\* ends as after a resolved main()
ExitStatus(p) ==
  CASE p = "exit0"   -> 0
    [] p = "done"    -> 0
    [] p = "crashed" -> 0

Next ==
  \/ Help
  \/ SelectAll
  \/ Prompt
  \/ PromptCancel
  \/ PathFromFlags
  \/ PromptTarget
  \/ PromptTargetCancel
  \/ PromptCustomPath
  \/ Collect
  \/ Mkdir
  \/ LoopNext
  \/ LoopEnd
  \/ LocalRead
  \/ RemoteFetch
  \/ WriteFile
  \/ GenerateWrite

Spec == Init /\ [][Next]_vars


(***************************************************************************)
(* generateSkillFile over arbitrary documents: the run stands after a loop *)
(* in which every local read and every write succeeded, generateSkillFile  *)
(* has read the bundled SKILL.md, and that file holds any text.            *)
(***************************************************************************)
\* the lines a document is made of: the two headings of the regular
\* expression, another heading of their level, and any other line
DocTokens == {StartMarker, EndMarker, OtherHeading, "text"}

\* the texts of SKILL.md, up to MaxDocLen lines
Docs == UNION {[1..n -> DocTokens] : n \in 0..MaxDocLen}

\* the selections of the prompt
PromptSelections ==
  {[languages |-> Ticked(OPTIONS.languages, T),
    frontendFrameworks |-> Ticked(OPTIONS.frontendFrameworks, T),
    backendFrameworks |-> Ticked(OPTIONS.backendFrameworks, T),
    includeApi |-> api, target |-> "cursor", customPath |-> <<>>] :
      T \in TickSets, api \in BOOLEAN}

\* the bundled copy of a catalog file when SKILL.md holds the text d
Bundled(filePath, d) ==
  [src |-> "local", of |-> LocalPath(filePath),
   text |-> IF filePath = <<"SKILL", ".md">> THEN d ELSE TextOf(filePath)]

\* the destination after a loop that installed every key of keys from the
\* bundled copies
InstalledFrom(root, keys, d) ==
  [p \in {Join(root, FILE_PATHS[keys[i]]) : i \in 1..Len(keys)} |->
     Bundled(SubSeq(p, Len(root) + 2, Len(p)), d)]

RegenInit ==
  /\ flags = [target |-> "cursor", path |-> <<>>, all |-> FALSE, help |-> FALSE]
  /\ selections \in PromptSelections
  /\ asked = SelectionQuestions
  /\ installPath = expandPath(TARGETS.cursor.path)
  /\ filesToInstall = Build(selections)
  /\ dirs = Range(RootDirs(installPath))
  /\ \E d \in Docs :
        /\ files = InstalledFrom(installPath, filesToInstall, d)
        /\ content = Bundled(<<"SKILL", ".md">>, d)
  /\ idx = Len(filesToInstall) + 1
  /\ installed = Len(filesToInstall)
  /\ report = [i \in 1..Len(filesToInstall) |->
                 [path |-> FILE_PATHS[filesToInstall[i]], ok |-> TRUE, msg |-> <<>>]]
  /\ caller = "generate"
  /\ curPath = <<"SKILL", ".md">>
  /\ io = <<[op |-> "readFile", arg |-> LocalPath(curPath), res |-> "ok"]>>
  /\ err = <<>>
  /\ faults = 0
  /\ pc = "genwrite"
  /\ previous = NoRun
  /\ sh = NoShell

\* generateSkillFile called once more, on the document it has just written
\* (the installed SKILL.md taken as the base document)
Reapply ==
  /\ pc = "done"
  /\ files[Join(installPath, <<"SKILL", ".md">>)] # content
  /\ content' = files[Join(installPath, <<"SKILL", ".md">>)]
  /\ pc' = "genwrite"
  /\ UNCHANGED <<sh, previous, flags, selections, asked, installPath, filesToInstall, dirs, files,
                 idx, installed, report, caller, curPath, io, err, faults>>

RegenNext ==
  \/ GenerateWrite
  \/ Reapply

SpecRegen == RegenInit /\ [][RegenNext]_vars


(***************************************************************************)
(* Two runs in a row: the same command, the same answers, the same         *)
(* destination, and an environment in which every operation of the second  *)
(* run ends as it ended in the first.                                      *)
(***************************************************************************)
TwiceInit ==
  /\ Init
  /\ flags = [target |-> "cursor", path |-> <<>>, all |-> FALSE, help |-> FALSE]

\* the command is run again with the same answers: a new process, whose main
\* comes with the same selections and the same install path to the point where
\* it collects the files; the destination is as the first run left it
Rerun ==
  /\ pc \in {"done", "crashed"}
  /\ previous = NoRun
  /\ filesToInstall # <<>>
  /\ previous' = [files |-> files, dirs |-> dirs, report |-> report,
                  caller |-> caller, io |-> io, content |-> content,
                  err |-> err, pc |-> pc]
  /\ filesToInstall' = <<>>
  /\ idx' = 1
  /\ installed' = 0
  /\ report' = <<>>
  /\ caller' = "none"
  /\ curPath' = <<>>
  /\ io' = <<>>
  /\ content' = NoContent
  /\ err' = <<>>
  /\ faults' = 0
  /\ pc' = "collect"
  /\ UNCHANGED <<sh, flags, selections, asked, installPath, dirs, files>>

\* p is the beginning of s
IsPrefix(p, s) == Len(p) <= Len(s) /\ SubSeq(s, 1, Len(p)) = p

\* what the first run shows about the bytes of a catalog file: the file it
\* left, unless generateSkillFile has written over it
KnownFrom(run, dest) ==
  /\ dest \in DOMAIN run.files
  /\ dest # Join(installPath, <<"SKILL", ".md">>) \/ run.pc = "crashed"

\* the step of a second run ends as it ended in the first run: main gets as
\* far as it got, the report lines are the same, fetchFile goes to the remote
\* copy where it did and returns the same bytes, it fails where it failed,
\* generateSkillFile makes the same reads and requests and gets the same
\* bytes, and main ends the same way
SameAsBefore ==
  \/ previous' = NoRun
  \/ /\ pc' = "loop" => previous.caller # "none"
     /\ IsPrefix(report', previous.report)
     /\ (caller' = "loop" /\ pc' \in {"remote", "write"}) =>
          LET line == previous.report[idx']
              dest == Join(installPath, curPath')
          IN /\ (pc' = "remote" /\ line.ok /\ KnownFrom(previous, dest))
                   => previous.files[dest].src = "remote"
             /\ pc' = "write" => \/ line.ok
                                 \/ line.msg = FsError(dest)
             /\ (pc' = "write" /\ line.ok /\ KnownFrom(previous, dest))
                   => content' = previous.files[dest]
     /\ caller' = "generate" =>
          /\ previous.caller = "generate"
          /\ IsPrefix(io', previous.io)
          /\ pc' = "genwrite" => content' = previous.content
     /\ pc' = "done" => previous.pc = "done"
     /\ pc' = "crashed" => previous.pc = "crashed" /\ err' = previous.err

TwiceNext ==
  \/ Prompt /\ SameAsBefore
  \/ PromptCancel /\ SameAsBefore
  \/ PathFromFlags /\ SameAsBefore
  \/ Collect /\ SameAsBefore
  \/ Mkdir /\ SameAsBefore
  \/ LoopNext /\ SameAsBefore
  \/ LoopEnd /\ SameAsBefore
  \/ LocalRead /\ SameAsBefore
  \/ RemoteFetch /\ SameAsBefore
  \/ WriteFile /\ SameAsBefore
  \/ GenerateWrite /\ SameAsBefore
  \/ Rerun

SpecTwice == TwiceInit /\ [][TwiceNext]_vars


(***************************************************************************)
(* Properties.                                                             *)
(***************************************************************************)
\* filesToInstall has been built and main has not been unwound
Collected == pc \in {"mkdir", "loop", "local", "remote", "write", "genwrite", "done"}

\* the for-of loop has run to its end
LoopOver == caller = "generate"

\* the run is inside the for-of loop
InLoop == caller = "loop" \/ (pc = "loop" /\ caller = "none")

\* t occurs in s as a run of consecutive tokens
Contains(s, t) == \E i \in 0..(Len(s) - Len(t)) : SubSeq(s, i + 1, i + Len(t)) = t

\* the catalog path of the i-th key of filesToInstall
PathAt(i) == FILE_PATHS[filesToInstall[i]]

\* C1: in the loop, the failure of one item never aborts the batch: main is
\* never unwound from inside the loop, the step that ends an item (failed or
\* not) appends that item's line to the report without touching the earlier
\* lines and moves on to the next key, the line is a failure exactly when an
\* I/O operation of that very item failed in the step, and once the loop is
\* over every key has been attempted.
C1_FailureDoesNotAbort ==
  /\ [](pc = "crashed" => ~InLoop)
  /\ [](LoopOver => Len(report) = Len(filesToInstall))
  /\ [][(caller = "loop" /\ pc \in {"remote", "write"} /\ pc' # pc)
          => \/ pc' = "write" /\ report' = report /\ idx' = idx
             \/ /\ pc' = "loop"
                /\ idx' = idx + 1
                /\ Len(report') = Len(report) + 1
                /\ SubSeq(report', 1, Len(report)) = report
                /\ report'[Len(report')].path = PathAt(idx)
                /\ report'[Len(report')].ok = (faults' = faults)]_vars

\* C1 witness: the loop is over, an item failed, and a later item succeeded
C1_Witness ==
  /\ LoopOver
  /\ \E i, j \in 1..Len(report) : i < j /\ ~report[i].ok /\ report[j].ok

\* C2: at every step the installed count equals the number of success lines
\* printed so far, and it never exceeds the length of filesToInstall.
C2_InstalledCountsSuccesses ==
  /\ installed = Cardinality({i \in 1..Len(report) : report[i].ok})
  /\ installed <= Len(filesToInstall)

\* C2 witness: the summary is reached after successes and a failure
C2_Witness ==
  /\ pc = "done"
  /\ installed >= 2
  /\ installed < Len(report)

\* C3: the report holds one line per key of filesToInstall, in the order of
\* filesToInstall: during the loop for the keys before the current one, after
\* the loop for all of them.
C3_ReportInSelectionOrder ==
  (InLoop \/ LoopOver) =>
    /\ Len(report) = (IF LoopOver THEN Len(filesToInstall) ELSE idx - 1)
    /\ \A i \in 1..Len(report) : report[i].path = PathAt(i)

\* C3 witness: the loop is over with at least three lines, one of them a failure
C3_Witness ==
  /\ LoopOver
  /\ Len(report) >= 3
  /\ \E i \in 1..Len(report) : ~report[i].ok

\* C4: whatever the flags and the answers, filesToInstall contains 'core' and
\* 'core' is its first element.
C4_CoreFirst ==
  Collected =>
    /\ Len(filesToInstall) >= 1
    /\ filesToInstall[1] = "core"
    /\ "core" \in Range(filesToInstall)

\* C4 witness: a selection built with the API document refused and an option ticked
C4_Witness ==
  /\ pc = "mkdir"
  /\ ~selections.includeApi
  /\ Len(filesToInstall) = 2

\* the keys the three categories of OPTIONS offer
OptionKeys ==
  Range(Values(OPTIONS.languages)) \cup Range(Values(OPTIONS.frontendFrameworks))
    \cup Range(Values(OPTIONS.backendFrameworks))

\* C5: under --all, filesToInstall holds every option of the three categories,
\* which are all the catalog keys besides core and api, and 'api' too, and none
\* of the selection questions has been asked.
C5_InstallAll ==
  (Collected /\ flags.all) =>
    /\ OptionKeys \subseteq Range(filesToInstall)
    /\ DOMAIN FILE_PATHS \subseteq Range(filesToInstall)
    /\ selections.includeApi
    /\ "api" \in Range(filesToInstall)
    /\ \A q \in Range(SelectionQuestions) : q \notin Range(asked)

\* C5 witness: a run with --all reaches its summary
C5_Witness ==
  /\ flags.all
  /\ pc = "done"

\* C6: filesToInstall is core, then api exactly when includeApi is true, then
\* the languages, the frontend frameworks and the backend frameworks, each in
\* the order of the answer.
C6_SelectionOrder ==
  Collected =>
    LET off == IF selections.includeApi THEN 2 ELSE 1
        nl  == Len(selections.languages)
        nf  == Len(selections.frontendFrameworks)
        nb  == Len(selections.backendFrameworks)
    IN /\ Len(filesToInstall) = off + nl + nf + nb
       /\ filesToInstall[1] = "core"
       /\ selections.includeApi <=> ("api" \in Range(filesToInstall))
       /\ selections.includeApi => filesToInstall[2] = "api"
       /\ \A i \in 1..nl : filesToInstall[off + i] = selections.languages[i]
       /\ \A i \in 1..nf : filesToInstall[off + nl + i] = selections.frontendFrameworks[i]
       /\ \A i \in 1..nb : filesToInstall[off + nl + nf + i] = selections.backendFrameworks[i]

\* C6 witness: a selection with api and several keys of every category
C6_Witness ==
  /\ pc = "mkdir"
  /\ selections.includeApi
  /\ Len(selections.languages) >= 2
  /\ Len(selections.frontendFrameworks) >= 2
  /\ Len(selections.backendFrameworks) >= 2

\* the relative paths of the catalog
CatalogPaths == {FILE_PATHS[k] : k \in DOMAIN FILE_PATHS}

\* C7: every key of filesToInstall is a key of the catalog, and every report
\* line and every file written belongs to such a key.
C7_SelectionWithinCatalog ==
  Collected =>
    /\ \A i \in 1..Len(filesToInstall) : filesToInstall[i] \in DOMAIN FILE_PATHS
    /\ \A i \in 1..Len(report) : report[i].path \in CatalogPaths
    /\ \A d \in DOMAIN files :
          /\ SubSeq(d, 1, Len(installPath) + 1) = installPath \o <<"/">>
          /\ SubSeq(d, Len(installPath) + 2, Len(d)) \in CatalogPaths

\* C7 witness: an answer with a ticked option has been installed
C7_Witness ==
  /\ pc = "done"
  /\ ~flags.all
  /\ Len(filesToInstall) = 3
  /\ Cardinality(DOMAIN files) = 3

\* C8: filesToInstall holds no key twice, and every key of the answers is in it.
C8_NoDuplicates ==
  Collected =>
    /\ Cardinality(Range(filesToInstall)) = Len(filesToInstall)
    /\ Range(selections.languages) \cup Range(selections.frontendFrameworks)
          \cup Range(selections.backendFrameworks) \subseteq Range(filesToInstall)

\* C8 witness: the selection of --all, twenty keys
C8_Witness ==
  /\ pc = "mkdir"
  /\ Len(filesToInstall) = 20

\* the running or last fetchFile call failed at its remote fetch
FetchFailed == Len(io) = 2 /\ io[2].res # "200"

\* the running or last fetchFile call has returned a value
FetchReturned == pc \in {"write", "genwrite"}

\* C9: fetchFile reads the local copy first; it requests base/relativePath
\* only after that read has failed; a successful read is returned with no
\* request made; after a failed read, a successful answer is returned.
C9_LocalThenRemote ==
  /\ Len(io) <= 2
  /\ Len(io) >= 1 => io[1].op = "readFile" /\ io[1].arg = TEMPLATES \o <<"/">> \o curPath
  /\ Len(io) = 2 => /\ io[1].res = "error"
                    /\ io[2].op = "fetch"
                    /\ io[2].arg = REPO_URL \o <<"/">> \o curPath
  /\ pc = "remote" => Len(io) = 1 /\ io[1].res = "error"
  /\ FetchReturned =>
       /\ Len(io) >= 1
       /\ io[1].res = "ok" => Len(io) = 1 /\ content.src = "local" /\ content.of = io[1].arg
       /\ io[1].res = "error" =>
            Len(io) = 2 /\ io[2].res = "200" /\ content.src = "remote" /\ content.of = io[2].arg

\* C9 witness: the local read failed and the remote payload was returned
C9_Witness ==
  /\ pc = "write"
  /\ Len(io) = 2
  /\ content.src = "remote"

\* what made the remote fetch fail: the status, or the rejection itself
Cause == IF io[2].res = "rejected" THEN TransportError ELSE <<io[2].res>>

\* C10 as stated: when the local read and the remote fetch both fail, the error
\* fetchFile throws carries the relative path and the underlying cause.
C10_ErrorCarriesPathAndCause ==
  FetchFailed => Contains(err, curPath) /\ Contains(err, Cause)

\* C10 amended: the error carries the underlying cause and not the relative
\* path; in the loop, the report line pairs the relative path with the message.
C10_ErrorCarriesCause ==
  FetchFailed =>
    /\ io[1].res = "error"
    /\ Contains(err, Cause)
    /\ ~Contains(err, curPath)
    /\ caller = "loop" =>
         /\ pc = "loop"
         /\ report[Len(report)] = [path |-> curPath, ok |-> FALSE, msg |-> err]

\* C10 witness: an item of the loop failed on a non-success status
C10_Witness ==
  /\ FetchFailed
  /\ caller = "loop"
  /\ io[2].res = "404"


\* C11: nothing is retried: a fetchFile call issues at most one readFile and
\* at most one fetch; a call of the loop starts only for the key at the
\* current position, whose line is not yet in the report; the step that ends
\* an item, whatever its outcome, moves to the next key; the position never
\* moves back.
C11_NoRetry ==
  /\ [](/\ Cardinality({i \in 1..Len(io) : io[i].op = "readFile"}) <= 1
        /\ Cardinality({i \in 1..Len(io) : io[i].op = "fetch"}) <= 1)
  /\ [][/\ idx' \in {idx, idx + 1}
        /\ (pc' = "local" /\ pc # "local") => pc = "loop" /\ io' = <<>>
        /\ (pc' = "local" /\ pc # "local" /\ caller' = "loop")
              => idx' = idx /\ curPath' = PathAt(idx) /\ Len(report) = idx - 1
        /\ (caller = "loop" /\ pc \in {"remote", "write"} /\ pc' = "loop")
              => idx' = idx + 1 /\ Len(report') = idx]_vars

\* C11 witness: an item has failed after one read and one request, and the
\* loop stands at the next key
C11_Witness ==
  /\ pc = "loop"
  /\ caller = "loop"
  /\ Len(io) = 2
  /\ io[2].res = "rejected"
  /\ idx = Len(report) + 1
  /\ ~report[Len(report)].ok

\* nothing of the installation has been attempted
NothingAttempted ==
  /\ report = <<>>
  /\ installed = 0
  /\ io = <<>>
  /\ files = <<>>
  /\ caller = "none"
  /\ pc \notin {"loop", "local", "remote", "write", "genwrite", "done"}

\* C12: as long as the destination root has not been created nothing is
\* attempted, and a rejected fs.mkdir of the root unwinds main: no fetchFile
\* call, no report line, no file written, no call of generateSkillFile.
C12_RootFailureAborts ==
  /\ installPath \notin dirs => NothingAttempted
  /\ (pc = "crashed" /\ err = FsError(installPath)) =>
        installPath \notin dirs /\ NothingAttempted

\* C12 witness: fs.mkdir of the destination root was rejected
C12_Witness ==
  /\ pc = "crashed"
  /\ installPath # <<>>
  /\ err = FsError(installPath)
  /\ dirs = {}

\* the three directories main creates under the destination root exist
SubdirsExist ==
  /\ Join(installPath, <<"languages">>) \in dirs
  /\ Join(installPath, <<"frameworks", "/", "frontend">>) \in dirs
  /\ Join(installPath, <<"frameworks", "/", "backend">>) \in dirs

PastMkdir ==
  \/ pc \in {"loop", "local", "remote", "write", "genwrite", "done"}
  \/ pc = "crashed" /\ caller = "generate"

Ended == pc \in {"exit0", "done", "crashed"}

\* C20: the process ends with a non-zero exit status only if no item was
\* installed or the destination root was not created, and a run with failed
\* items and at least one installed item ends with exit status zero.
C20_ExitStatus ==
  Ended =>
    /\ ExitStatus(pc) # 0 => (installed = 0 \/ installPath \notin dirs)
    /\ (installed >= 1 /\ installed < Len(report)) => ExitStatus(pc) = 0

\* C20 witness: main was rejected in generateSkillFile after an installed
\* and a failed item
C20_Witness ==
  /\ pc = "crashed"
  /\ caller = "generate"
  /\ installed >= 1
  /\ installed < Len(report)

\* the installed SKILL.md
SkillDest == Join(installPath, <<"SKILL", ".md">>)

\* the document generateSkillFile was given, and the one it wrote
Given == content.text

Written == files[SkillDest].text

\* generateSkillFile has written its document
Generated == pc = "done" /\ SkillDest \in DOMAIN files

\* the document holds a start heading with an end heading after it
HasRegion(text) ==
  \E i \in 1..Len(text) :
     text[i] = StartMarker /\ \E j \in (i + 1)..Len(text) : text[j] = EndMarker

\* the first start heading of a document that has a region
RegionStart(text) ==
  CHOOSE i \in 1..Len(text) :
     text[i] = StartMarker /\ \A k \in 1..(i - 1) : text[k] # StartMarker

\* the first end heading after position i
EndAfter(text, i) ==
  CHOOSE j \in (i + 1)..Len(text) :
     text[j] = EndMarker /\ \A k \in (i + 1)..(j - 1) : text[k] # EndMarker

\* C14: regenerating a regenerated document with the same selection gives
\* that document again, for the document and the selection of every state;
\* when generateSkillFile runs on the document it wrote, it writes it again.
C14_RegenerateIdempotent ==
  /\ Regenerate(Regenerate(content, selections), selections)
        = Regenerate(content, selections)
  /\ (Generated /\ HasRegion(Given) /\ Given = Regenerate(content, selections).text)
        => Written = Given

\* C14 witness: generateSkillFile has run on a document that holds the section
\* of this selection, and has written the same document
C14_Witness ==
  /\ Generated
  /\ Contains(Given, refSection(selections))
  /\ Len(selections.languages) >= 1
  /\ Written = Given

\* C15: a document without a region is regenerated to itself, and in
\* generateSkillFile it is written as it is and main goes on to its summary;
\* only a rejected fs.writeFile unwinds main.
C15_NoRegionUnchanged ==
  /\ [](~HasRegion(Given) => Regenerate(content, selections) = content)
  /\ [][(pc = "genwrite" /\ ~HasRegion(Given)) =>
          \/ pc' = "done" /\ files'[SkillDest] = content /\ err' = err
          \/ pc' = "crashed" /\ faults' = faults + 1 /\ err' = FsError(SkillDest)]_vars

\* C15 witness: the summary is reached with a document that has a start
\* heading and no end heading after it, written as it was
C15_Witness ==
  /\ Generated
  /\ ~HasRegion(Given)
  /\ \E i \in 1..Len(Given) : Given[i] = StartMarker
  /\ Written = Given

\* the section of a document that has a region
Section(text) == SubSeq(text, RegionStart(text), EndAfter(text, RegionStart(text)) - 1)

\* the headings of the four groups
GroupHeadings ==
  {"### Frontend Frameworks", "### Backend Frameworks", "### Languages", "### General"}

\* the group headings and the keys of a section, in the order of the section
Outline(sec) ==
  SelectSeq(sec, LAMBDA t : t \in GroupHeadings \cup OptionKeys \cup {"api"})

\* a group as the outline shows it: nothing for no key; otherwise the heading
\* and every key twice (link text and link target)
Group(h, keys) ==
  IF keys = <<>> THEN <<>>
  ELSE <<h>> \o [i \in 1..(2 * Len(keys)) |-> keys[(i + 1) \div 2]]

\* C16: the section written lists the frontend frameworks, the backend
\* frameworks, the languages and the API document, in this order of groups and
\* in the order of the answers inside a group; a group without key is left
\* out; the General group is there exactly when includeApi is true; every
\* selected key is linked by its catalog path and no other key is listed.
C16_SectionListsSelection ==
  (Generated /\ HasRegion(Given)) =>
    LET sec == Section(Written) IN
      /\ Outline(sec) =
            Group("### Frontend Frameworks", selections.frontendFrameworks)
            \o Group("### Backend Frameworks", selections.backendFrameworks)
            \o Group("### Languages", selections.languages)
            \o (IF selections.includeApi THEN <<"### General", "api", "api">> ELSE <<>>)
      /\ \A k \in Range(filesToInstall) \ {"core"} :
            Contains(sec, <<"](">> \o FILE_PATHS[k] \o <<")">>)
      /\ ("### General" \in Range(sec)) <=> selections.includeApi

\* C16 witness: a section written for two languages and two backend
\* frameworks, no frontend framework and no API document
C16_Witness ==
  /\ Generated
  /\ HasRegion(Given)
  /\ ~selections.includeApi
  /\ selections.frontendFrameworks = <<>>
  /\ Len(selections.languages) = 2
  /\ Len(selections.backendFrameworks) = 2
  /\ Written # Given

\* the targets of the links of a section: what stands between "](" and ")"
LinkTargets(sec) ==
  {SubSeq(sec, i + 1, (CHOOSE j \in (i + 1)..Len(sec) :
                          sec[j] = ")" /\ \A k \in (i + 1)..(j - 1) : sec[k] # ")") - 1) :
     i \in {n \in 1..Len(sec) : sec[n] = "]("}}

\* the catalog paths the loop reported as installed
InstalledPaths == {report[i].path : i \in {n \in 1..Len(report) : report[n].ok}}

\* C17 as stated: every item the section of the installed SKILL.md refers to
\* has a success line in the report of the run.
C17_RefsOnlyInstalled ==
  (Generated /\ HasRegion(Written)) =>
    LinkTargets(Section(Written)) \subseteq InstalledPaths

\* C17 amended: the section of the installed SKILL.md refers to the selected
\* items, all of them and no other, whether their line in the report is a
\* success or a failure.
C17_RefsAreSelection ==
  (Generated /\ HasRegion(Written)) =>
    LET refs == LinkTargets(Section(Written)) IN
      /\ refs = {FILE_PATHS[k] : k \in Range(filesToInstall) \ {"core"}}
      /\ refs = {report[i].path : i \in 1..Len(report)} \ {<<"SKILL", ".md">>}

\* C17 witness: the section written refers to an item whose line in the
\* report is a failure
C17_Witness ==
  /\ Generated
  /\ HasRegion(Written)
  /\ \E i \in 1..Len(report) :
        /\ ~report[i].ok
        /\ report[i].path # <<"SKILL", ".md">>
        /\ report[i].path \in LinkTargets(Section(Written))

\* the headings of the level of the start heading
TopHeadings == {StartMarker, EndMarker, OtherHeading}

\* C19 as stated: the region replaced goes from the first start heading to
\* just before the next heading of its level, and what precedes the start
\* heading and what follows from that next heading on is kept.
C19_RegionToNextHeading ==
  Generated =>
    \A i \in 1..Len(Given), j \in 1..Len(Given) :
       ( /\ i < j
         /\ Given[i] = StartMarker
         /\ \A k \in 1..(i - 1) : Given[k] # StartMarker
         /\ Given[j] \in TopHeadings
         /\ \A k \in (i + 1)..(j - 1) : Given[k] \notin TopHeadings )
       => Written = SubSeq(Given, 1, i - 1) \o refSection(selections) \o <<"\n\n">>
                      \o SubSeq(Given, j, Len(Given))

\* C19 amended: the region replaced goes from the first start heading that an
\* end heading follows to just before the first end heading after it, whatever
\* headings lie between the two; what precedes the start heading and what
\* follows from that end heading on is kept; a document without such a region
\* is written as it is.
C19_RegionToSelfHealing ==
  Generated =>
    IF HasRegion(Given)
    THEN Written = SubSeq(Given, 1, RegionStart(Given) - 1)
                     \o refSection(selections) \o <<"\n\n">>
                     \o SubSeq(Given, EndAfter(Given, RegionStart(Given)), Len(Given))
    ELSE Written = Given

\* C19 witness: a document with another heading between the start heading and
\* the end heading, and text before and after the region, has been regenerated
C19_Witness ==
  /\ Generated
  /\ Len(Given) = MaxDocLen
  /\ Given[1] = "text"
  /\ Given[2] = StartMarker
  /\ Given[3] = OtherHeading
  /\ Given[4] = EndMarker
  /\ Written # Given

\* a second run has ended
SecondRunEnded == previous # NoRun /\ pc \in {"done", "crashed"}

\* C18: when the second of two runs with the same selection and the same
\* destination has ended, in an environment where every operation ends as in
\* the first run, the files and directories of the destination and the bytes
\* of every file are those the first run left; and the second run ends as the
\* first.
C18_SecondRunSameTree ==
  SecondRunEnded =>
    /\ files = previous.files
    /\ dirs = previous.dirs
    /\ pc = previous.pc
    /\ report = previous.report

\* C18 witness: the second run has reached its summary after it wrote several
\* files again and failed on an item again
C18_Witness ==
  /\ SecondRunEnded
  /\ pc = "done"
  /\ installed >= 2
  /\ installed < Len(report)
  /\ HasRegion(Written)

\* C23: the catalog maps two different keys to two different relative paths,
\* so the destinations of two different items of the collected selection
\* (which no later step changes) differ, and a run that reached its summary
\* has left at least as many files as it counted installed.
C23_DistinctDestinations ==
  /\ pc = "collect" =>
       \A k1, k2 \in DOMAIN FILE_PATHS : k1 # k2 => FILE_PATHS[k1] # FILE_PATHS[k2]
  /\ pc = "mkdir" =>
       LET dest == [i \in 1..Len(filesToInstall) |-> Join(installPath, PathAt(i))]
       IN \A i \in 1..Len(filesToInstall) : \A j \in (i + 1)..Len(filesToInstall) :
             filesToInstall[i] # filesToInstall[j] => dest[i] # dest[j]
  /\ pc = "done" => Cardinality(DOMAIN files) >= installed

\* C23 witness: a run with --all has installed every item of the catalog, each
\* in a file of its own
C23_Witness ==
  /\ pc = "done"
  /\ flags.all
  /\ installed = Cardinality(DOMAIN FILE_PATHS)
  /\ Cardinality(DOMAIN files) = installed

\* the three categories of OPTIONS
Categories == {"languages", "frontendFrameworks", "backendFrameworks"}

\* the selection of the one key v of category c
OneKey(c, v) ==
  [languages          |-> IF c = "languages" THEN <<v>> ELSE <<>>,
   frontendFrameworks |-> IF c = "frontendFrameworks" THEN <<v>> ELSE <<>>,
   backendFrameworks  |-> IF c = "backendFrameworks" THEN <<v>> ELSE <<>>,
   includeApi |-> FALSE, target |-> Null, customPath |-> <<>>]

\* the lines generateSkillFile renders for the keys of category c
Rendered(c, sel) ==
  CASE c = "languages"          -> languageRefs(sel)
    [] c = "frontendFrameworks" -> frontendRefs(sel)
    [] c = "backendFrameworks"  -> backendRefs(sel)

\* the directory of the catalog paths of category c
DirOf(c) ==
  CASE c = "languages"          -> <<"languages", "/">>
    [] c = "frontendFrameworks" -> <<"frameworks", "/", "frontend", "/">>
    [] c = "backendFrameworks"  -> <<"frameworks", "/", "backend", "/">>

\* the line that names option o by its display title and links its catalog path
Entry(o) ==
  <<"- **", o.title, "**: See [">> \o FILE_PATHS[o.value] \o <<"](">>
    \o FILE_PATHS[o.value] \o <<")">>

\* C24: every option key of the three categories has a catalog path, made of
\* the directory of its category, the key and '.md'; the line generateSkillFile
\* renders for the key carries the display title of the option and links that
\* catalog path; and the section written holds this line for every selected key.
C24_LinksAreCatalogPaths ==
  /\ \A c \in Categories : \A i \in 1..Len(OPTIONS[c]) :
        LET o == OPTIONS[c][i] IN
          /\ o.value \in DOMAIN FILE_PATHS
          /\ FILE_PATHS[o.value] = DirOf(c) \o <<o.value, ".md">>
          /\ Rendered(c, OneKey(c, o.value)) = Entry(o)
  /\ (Generated /\ HasRegion(Given)) =>
        \A c \in Categories : \A i \in 1..Len(OPTIONS[c]) :
           OPTIONS[c][i].value \in Range(selections[c]) =>
              Contains(Section(Written), Entry(OPTIONS[c][i]))

\* C24 witness: the section written links a language, a frontend framework and
\* a backend framework, each by its catalog path and under its display title
C24_Witness ==
  /\ Generated
  /\ HasRegion(Given)
  /\ Contains(Section(Written),
        <<"- **", "Python", "**: See [", "languages", "/", "python", ".md", "](",
          "languages", "/", "python", ".md", ")">>)
  /\ Contains(Section(Written),
        <<"- **", "Vue", "**: See [", "frameworks", "/", "frontend", "/", "vue", ".md">>)
  /\ Contains(Section(Written),
        <<"](", "frameworks", "/", "backend", "/", "django", ".md", ")">>)

(***************************************************************************)
(* The install path over arbitrary values of --path and --target: main     *)
(* from its start to the point where installPath is set.                   *)
(***************************************************************************)
\* a value of --path has at most this many tokens
MaxPathLen == 3

\* the tokens of a path: the tilde, the separator, a name
PathTokens == {"~", "/", "rules"}

\* the values of --path (none is <<>>)
PathInputs == UNION {[1..n -> PathTokens] : n \in 0..MaxPathLen}

\* the values of --target: none, the four known targets, an unknown one
TargetInputs == {Null, "claude", "codex", "cursor", "agents", "vscode"}

PathInit ==
  /\ flags \in [target : TargetInputs, path : PathInputs, all : {TRUE}, help : {FALSE}]
  /\ selections = [languages |-> <<>>, frontendFrameworks |-> <<>>,
                   backendFrameworks |-> <<>>, includeApi |-> TRUE,
                   target |-> flags.target, customPath |-> flags.path]
  /\ asked = <<>>
  /\ installPath = <<>>
  /\ filesToInstall = <<>>
  /\ dirs = {}
  /\ files = <<>>
  /\ idx = 1
  /\ installed = 0
  /\ report = <<>>
  /\ caller = "none"
  /\ curPath = <<>>
  /\ io = <<>>
  /\ content = NoContent
  /\ err = <<>>
  /\ faults = 0
  /\ pc = "start"
  /\ previous = NoRun
  /\ sh = NoShell

PathNext ==
  \/ SelectAll
  \/ PathFromFlags
  \/ PromptTarget
  \/ PromptTargetCancel
  \/ PromptCustomPath

SpecPath == PathInit /\ [][PathNext]_vars

\* e is p with a leading tilde replaced by the home directory: every token
\* after the first as in p, the first one the home directory if it was a
\* tilde; and p itself if p does not start with a tilde
IsExpansionOf(e, p) ==
  IF p # <<>> /\ p[1] = "~"
  THEN /\ Len(e) = Len(p)
       /\ e[1] = HOME
       /\ \A i \in 2..Len(p) : e[i] = p[i]
  ELSE e = p

\* the paths the install root of this run can come from: --path if given,
\* else the path of the known --target, else the path typed at the custom-path
\* prompt or the path of the target chosen at the target prompt
RootSources ==
  IF flags.path # <<>> THEN {flags.path}
  ELSE IF flags.target \in DOMAIN TARGETS THEN {TARGETS[flags.target].path}
  ELSE IF asked # <<>> /\ asked[Len(asked)] = "path" THEN CustomPaths
  ELSE {TARGETS[t].path : t \in DOMAIN TARGETS}

\* C25: expandPath of the --path value of the run is that value with a leading
\* tilde replaced by the home directory, and the value itself when it does not
\* start with a tilde; once main has set the install root, it is the expansion
\* of the path it came from (--path, the named target, the target chosen at
\* the prompt, or the custom path typed).
C25_RootIsExpandedPath ==
  /\ IsExpansionOf(expandPath(flags.path), flags.path)
  /\ pc = "collect" => \E p \in RootSources : IsExpansionOf(installPath, p)
  /\ pc = "collect" => (installPath = <<>> \/ installPath[1] # "~")

\* C25 witness: a --path value with a tilde first and a tilde later became the
\* install root with only the first one replaced
C25_Witness ==
  /\ pc = "collect"
  /\ flags.path = <<"~", "/", "~">>
  /\ installPath = <<HOME, "/", "~">>

\* neither --target nor --path is given
NeitherGiven == flags.target = Null /\ flags.path = <<>>

C27_SummaryOnceDirsCreated ==
  PastMkdir => pc # "crashed"

\* a prompt was cancelled: the process has exited from an onCancel
Cancelled == pc = "exit0" /\ asked # <<>>

\* the custom-path prompt was the last one shown and it gave no path
NoAnswerAtCustom ==
  /\ asked # <<>>
  /\ asked[Len(asked)] = "path"
  /\ installPath = <<>>

\* C29: a run in which a prompt was cancelled (a selection question or the
\* target question) or the custom-path prompt returned no answer is over, and
\* it has created no directory, written no file, and attempted no item.
C29_CancelLeavesNothing ==
  /\ NoAnswerAtCustom => pc = "crashed"
  /\ (Cancelled \/ NoAnswerAtCustom) =>
        /\ Ended
        /\ dirs = {}
        /\ files = <<>>
        /\ filesToInstall = <<>>
        /\ report = <<>>
        /\ io = <<>>

\* C29 witness: the user answered the selection questions, chose 'Custom path'
\* and gave no path; main was unwound by the TypeError of expandPath
C29_Witness ==
  /\ NoAnswerAtCustom
  /\ pc = "crashed"
  /\ err = ReplaceOfUndefined
  /\ Len(asked) = Len(SelectionQuestions) + 2
  /\ selections.languages # <<>>

\* C30 as stated: the destination starts empty, and at every point of the run
\* no item whose line in the report is a failure has its destination file,
\* SKILL.md included.
C30_WrittenOnlyIfSuccess ==
  \A i \in 1..Len(report) :
     ~report[i].ok => Join(installPath, report[i].path) \notin DOMAIN files

(***************************************************************************)
(* A run into a destination that holds files of an earlier installation.   *)
(***************************************************************************)
\* a file that was at the destination before the run
Stale(p) == [src |-> "stale", of |-> p, text |-> <<"old conventions">>]

\* the catalog keys whose files are at the destination before the run: the
\* API document alone, or the primary document and files of every category
StaleKeys == { {"api"}, {"core", "api", "go", "python", "react", "django"} }

StaleInit ==
  /\ flags = [target |-> "cursor", path |-> <<>>, all |-> FALSE, help |-> FALSE]
  /\ selections = [languages |-> <<>>, frontendFrameworks |-> <<>>,
                   backendFrameworks |-> <<>>, includeApi |-> TRUE,
                   target |-> flags.target, customPath |-> flags.path]
  /\ asked = <<>>
  /\ installPath = <<>>
  /\ filesToInstall = <<>>
  /\ LET root == expandPath(TARGETS.cursor.path) IN
       /\ dirs = Range(RootDirs(root))
       /\ \E K \in StaleKeys :
             files = [p \in {Join(root, FILE_PATHS[k]) : k \in K} |-> Stale(p)]
  /\ idx = 1
  /\ installed = 0
  /\ report = <<>>
  /\ caller = "none"
  /\ curPath = <<>>
  /\ io = <<>>
  /\ content = NoContent
  /\ err = <<>>
  /\ faults = 0
  /\ pc = "start"
  /\ previous = NoRun
  /\ sh = NoShell

StaleNext ==
  \/ Prompt
  \/ PathFromFlags
  \/ Collect
  \/ Mkdir
  \/ LoopNext
  \/ LoopEnd
  \/ LocalRead
  \/ RemoteFetch
  \/ WriteFile
  \/ GenerateWrite

SpecStale == StaleInit /\ [][StaleNext]_vars

\* what fetchFile returns for filePath after the reads and requests in io: the
\* bundled copy if the read succeeded, else the payload of the remote
Resolved(filePath) ==
  IF io[1].res = "ok" THEN LocalContent(filePath) ELSE RemoteContent(filePath)

\* the primary document
IsCore(filePath) == filePath = <<"SKILL", ".md">>

\* C22: the step of the loop that reports an item as installed leaves at the
\* item's destination exactly what fetchFile returned for it (the bundled copy
\* when the local read succeeded, else the remote payload), whatever was there
\* before, and touches no other file; and at every point the destination of
\* each item other than core with a success line holds the bundled copy or the
\* remote payload of that very item, never what was there before the run.
C22_FileHoldsResolvedBytes ==
  /\ [][(pc = "write" /\ Len(report') > Len(report) /\ report'[Len(report')].ok) =>
          LET dest == Join(installPath, curPath) IN
            /\ report'[Len(report')].path = curPath
            /\ dest \in DOMAIN files'
            /\ files'[dest] = Resolved(curPath)
            /\ \A p \in DOMAIN files' \ {dest} : p \in DOMAIN files /\ files'[p] = files[p]]_vars
  /\ [](\A i \in 1..Len(report) :
          (report[i].ok /\ ~IsCore(report[i].path)) =>
             LET dest == Join(installPath, report[i].path) IN
               /\ dest \in DOMAIN files
               /\ files[dest] \in {LocalContent(report[i].path), RemoteContent(report[i].path)})

\* C22 witness: the run reached its summary having written the remote payload
\* of python.md and the bundled copy of django.md over the files that were
\* there, next to the file of an item that was not selected
C22_Witness ==
  /\ pc = "done"
  /\ installed = Len(filesToInstall)
  /\ LET react  == Join(installPath, FILE_PATHS.react)
         python == Join(installPath, FILE_PATHS.python)
         django == Join(installPath, FILE_PATHS.django)
     IN /\ {react, python, django} \subseteq DOMAIN files
        /\ files[react] = Stale(react)
        /\ files[python] = RemoteContent(FILE_PATHS.python)
        /\ files[django] = LocalContent(FILE_PATHS.django)

(***************************************************************************)
(* The shell installer install.sh: one run of the script.  Its state is    *)
(* the record sh; a word is a string without blanks, a line is a sequence  *)
(* of words, and the output of a command is a sequence of lines.           *)
(***************************************************************************)
\* set -e: the shell exits when a simple command ends with a non-zero status
ErrExit == TRUE

\* REPO_URL of install.sh
ShRepoUrl == <<"https://raw.githubusercontent.com/Zokor/agent-conventions/main">>

\* declare -A TARGETS, with $HOME expanded by the shell
ShTargets ==
  [claude   |-> <<HOME, "/", ".claude/skills/agent-conventions">>,
   codex    |-> <<HOME, "/", ".codex/skills/agent-conventions">>,
   cursor   |-> <<HOME, "/", ".cursor/skills/agent-conventions">>,
   aider    |-> <<HOME, "/", ".aider/skills/agent-conventions">>,
   continue |-> <<HOME, "/", ".continue/skills/agent-conventions">>,
   agents   |-> <<HOME, "/", ".agents/conventions">>,
   project  |-> <<".", "/", ".ai/conventions">>]

\* the three categories main asks for, in its order: the variable that takes
\* the answer, the prompt as echo -e "${CYAN}$prompt${NC}" prints it, the
\* options (LANGUAGES, FRONTEND, BACKEND) and the directory of their files
ShCategories ==
  << [var     |-> "selected_languages",
      prompt  |-> <<"<ESC>[0;36mSelect", "languages:<ESC>[0m">>,
      options |-> <<"typescript", "javascript", "php", "python", "java", "csharp", "go">>,
      dir     |-> <<"languages", "/">>],
     [var     |-> "selected_frontend",
      prompt  |-> <<"<ESC>[0;36mSelect", "frontend", "frameworks:<ESC>[0m">>,
      options |-> <<"react", "nextjs", "vue", "angular">>,
      dir     |-> <<"frameworks", "/", "frontend", "/">>],
     [var     |-> "selected_backend",
      prompt  |-> <<"<ESC>[0;36mSelect", "backend", "frameworks:<ESC>[0m">>,
      options |-> <<"laravel", "symfony", "django", "spring", "nestjs", "rails", "dotnet">>,
      dir     |-> <<"frameworks", "/", "backend", "/">>] >>

\* the second line select_options prints in its numbered-menu mode
HintLine ==
  <<"<ESC>[0;90mEnter", "numbers", "separated", "by", "spaces", "(e.g.,", "1", "3",
    "5),", "or", "'all',", "or", "press", "Enter", "to", "skip:<ESC>[0m">>

\* "$i)" of the menu lines
MenuNo == <<"1)", "2)", "3)", "4)", "5)", "6)", "7)">>

\* the numerals the user types; [[ "$num" =~ ^[0-9]+$ ]] and the value of $num
Numerals == <<"1", "2", "3", "4", "5", "6", "7", "8", "9">>

IsNumber(num) == num = "0" \/ num \in Range(Numerals)

ValueOf(num) == IF num = "0" THEN 0 ELSE CHOOSE i \in 1..Len(Numerals) : Numerals[i] = num

\* what select_options prints after read -r -p "> " selection: every option
\* for 'all', an empty line for an empty input, else the option of every word
\* that is a number from 1 to ${#options[@]}, in the order typed
Answer(options, selection) ==
  IF selection = <<"all">> THEN [i \in 1..Len(options) |-> <<options[i]>>]
  ELSE IF selection = <<>> THEN << <<>> >>
  ELSE LET valid == SelectSeq(selection, LAMBDA num :
                       IsNumber(num) /\ ValueOf(num) >= 1 /\ ValueOf(num) <= Len(options))
       IN [i \in 1..Len(valid) |-> <<options[ValueOf(valid[i])]>>]

\* the standard output of select_options for category c.  With fzf: the lines
\* fzf prints, the options picked (its interface is drawn on the terminal).
\* Without: the prompt, the hint, the numbered options, all written with
\* echo, and then the answer; the prompt of read goes to standard error.
select_options(c, fzf, input) ==
  IF fzf THEN [i \in 1..Len(input) |-> <<input[i]>>]
  ELSE <<c.prompt, HintLine>>
         \o [i \in 1..Len(c.options) |-> <<MenuNo[i], c.options[i]>>]
         \o Answer(c.options, input)

\* $(...): the output of the command without its trailing newlines
RECURSIVE Capture(_)
Capture(lines) ==
  IF lines # <<>> /\ lines[Len(lines)] = <<>>
  THEN Capture(SubSeq(lines, 1, Len(lines) - 1))
  ELSE lines

\* for x in $value: the words of the value, split at blanks and newlines
RECURSIVE Words(_)
Words(lines) == IF lines = <<>> THEN <<>> ELSE lines[1] \o Words(Tail(lines))

\* basename "$dest"
RECURSIVE Basename(_)
Basename(p) ==
  IF p = <<>> THEN <<>>
  ELSE IF p[Len(p)] = "/" THEN <<>>
  ELSE Basename(SubSeq(p, 1, Len(p) - 1)) \o <<p[Len(p)]>>

\* the files main downloads, in its order: SKILL.md, api.md, then one file per
\* word of the three values
Downloads(s) ==
  << <<"SKILL", ".md">>, <<"api", ".md">> >>
  \o [i \in 1..Len(Words(s.selected_languages)) |->
        ShCategories[1].dir \o <<Words(s.selected_languages)[i], ".md">>]
  \o [i \in 1..Len(Words(s.selected_frontend)) |->
        ShCategories[2].dir \o <<Words(s.selected_frontend)[i], ".md">>]
  \o [i \in 1..Len(Words(s.selected_backend)) |->
        ShCategories[3].dir \o <<Words(s.selected_backend)[i], ".md">>]

\* the repository serves the files of the catalog and no other
Served(rel) == \E k \in DOMAIN FILE_PATHS : FILE_PATHS[k] = rel

\* what curl writes to the destination
ShPayload(url) == [src |-> "remote", of |-> url, text |-> <<"conventions">>]

\* values of --target: none, a known target
ShTargetArgs == {"", "cursor"}

\* values of --path: none, a path
ShPathArgs == {<<>>, <<".", "/", "my-rules">>}

\* what the user types at 'Select install target:': a target, the custom
\* path, nothing
TargetChoiceInputs == {"3", "8", ""}

\* what the user types at the prompt of the numbered menu: nothing, 'all',
\* numbers, numbers among words that are no number of the menu
MenuInputs == {<<>>, <<"all">>, <<"2", "1">>, <<"x", "9", "1">>}

\* the first program state of the script: the arguments parsed (lines 85-107),
\* fzf and curl installed or not
ShInit ==
  /\ flags = [target |-> Null, path |-> <<>>, all |-> FALSE, help |-> FALSE]
  /\ selections = [languages |-> <<>>, frontendFrameworks |-> <<>>,
                   backendFrameworks |-> <<>>, includeApi |-> TRUE,
                   target |-> flags.target, customPath |-> flags.path]
  /\ asked = <<>>
  /\ installPath = <<>>
  /\ filesToInstall = <<>>
  /\ dirs = {}
  /\ files = <<>>
  /\ idx = 1
  /\ installed = 0
  /\ report = <<>>
  /\ caller = "none"
  /\ curPath = <<>>
  /\ io = <<>>
  /\ content = NoContent
  /\ err = <<>>
  /\ faults = 0
  /\ pc = "none"
  /\ previous = NoRun
  /\ \E t \in ShTargetArgs, p \in ShPathArgs, a \in BOOLEAN, h \in BOOLEAN,
        f \in BOOLEAN, c \in BOOLEAN :
        sh = [pc |-> "args", TARGET |-> t, CUSTOM_PATH |-> p, INSTALL_ALL |-> a,
              help |-> h, fzf |-> f, curl |-> c, INSTALL_DIR |-> <<>>,
              cat |-> 1, typed |-> <<>>,
              selected_languages |-> <<>>, selected_frontend |-> <<>>,
              selected_backend |-> <<>>,
              queue |-> <<>>, dirs |-> {}, files |-> <<>>, out |-> <<>>,
              attempted |-> <<>>, complete |-> FALSE, faults |-> 0, status |-> 0]

\* the lines of the script never touch the state of the Node installer
NodeIdle ==
  UNCHANGED <<flags, selections, asked, installPath, filesToInstall, dirs, files, idx,
              installed, report, caller, curPath, io, content, err, faults, pc, previous>>

\* the script ends with this exit status
ShExit(s, status) == [s EXCEPT !.pc = "exit", !.status = status]

\* -h|--help) show_help; exit 0
ShHelp ==
  /\ sh.pc = "args"
  /\ sh.help
  /\ sh' = ShExit(sh, 0)
  /\ NodeIdle

\* main: print_header, print_deprecation_notice, check_requirements
ShCheckRequirements ==
  /\ sh.pc = "args"
  /\ ~sh.help
  /\ sh' = IF sh.curl THEN [sh EXCEPT !.pc = "dir"] ELSE ShExit(sh, 1)
  /\ NodeIdle

\* main: Determine install path
ShInstallDir ==
  /\ sh.pc = "dir"
  /\ IF sh.CUSTOM_PATH # <<>>
     THEN sh' = [sh EXCEPT !.pc = "select", !.INSTALL_DIR = sh.CUSTOM_PATH]
     ELSE IF sh.TARGET # "" /\ sh.TARGET \in DOMAIN ShTargets
     THEN sh' = [sh EXCEPT !.pc = "select", !.INSTALL_DIR = ShTargets[sh.TARGET]]
     ELSE \E target_choice \in TargetChoiceInputs :
            sh' = [sh EXCEPT
                     !.pc = "select",
                     !.INSTALL_DIR =
                        CASE target_choice = "1" -> ShTargets.claude
                          [] target_choice = "2" -> ShTargets.codex
                          [] target_choice = "3" -> ShTargets.cursor
                          [] target_choice = "4" -> ShTargets.aider
                          [] target_choice = "5" -> ShTargets.continue
                          [] target_choice = "6" -> ShTargets.agents
                          [] target_choice = "7" -> ShTargets.project
                          [] target_choice = "8" -> <<".", "/", "my-rules">>
                          [] OTHER -> ShTargets.claude]
  /\ NodeIdle

\* if $INSTALL_ALL: the three lists of words
ShSelectAll ==
  /\ sh.pc = "select"
  /\ sh.INSTALL_ALL
  /\ sh' = [sh EXCEPT
              !.pc = "mkdir",
              !.selected_languages = << ShCategories[1].options >>,
              !.selected_frontend = << ShCategories[2].options >>,
              !.selected_backend = << ShCategories[3].options >>]
  /\ NodeIdle

\* else: selected_...=$(select_options "Select ...:" "${...[@]}"), for the
\* category sh.cat; with fzf the user picks options or leaves fzf with Esc,
\* which ends select_options, the assignment and, with set -e, the script
\* with the status of fzf
ShSelect ==
  /\ sh.pc = "select"
  /\ ~sh.INSTALL_ALL
  /\ LET c == ShCategories[sh.cat]
         next == IF sh.cat = Len(ShCategories) THEN "mkdir" ELSE "select"
         after(input) ==
           [sh EXCEPT
              !.pc = next,
              !.cat = IF sh.cat = Len(ShCategories) THEN @ ELSE @ + 1,
              !.typed = Append(@, input),
              ![c.var] = Capture(select_options(c, sh.fzf, input))]
     IN IF sh.fzf
        THEN \/ \E T \in TickSets :
                   sh' = after(SelectSeq(c.options, LAMBDA v : v \in T))
             \/ sh' = IF ErrExit THEN ShExit(sh, 130) ELSE after(<<>>)
        ELSE \E input \in MenuInputs : sh' = after(input)
  /\ NodeIdle

\* the four mkdir -p of main; with set -e a failing one ends the script
ShMkdir ==
  /\ sh.pc = "mkdir"
  /\ LET created == RootDirs(sh.INSTALL_DIR) IN
       \/ sh' = [sh EXCEPT !.pc = "download", !.dirs = Range(created),
                           !.queue = Downloads(sh)]
       \/ /\ sh.faults < MaxFaults
          /\ \E n \in 0..(Len(created) - 1) :
                sh' = IF ErrExit
                      THEN [ShExit(sh, 1) EXCEPT
                              !.dirs = {created[i] : i \in 1..n}, !.faults = @ + 1]
                      ELSE [sh EXCEPT !.pc = "download", !.faults = @ + 1,
                                      !.dirs = {created[i] : i \in 1..n},
                                      !.queue = Downloads(sh)]
  /\ NodeIdle

\* download_file "$REPO_URL/<file>" "$INSTALL_DIR/<file>" for the next file:
\* curl writes the file and download_file prints the success line and returns
\* 0, or curl fails (always for a file the repository does not serve) and
\* download_file prints the error line and returns 1, which with set -e ends
\* the script with that status
ShDownload ==
  /\ sh.pc = "download"
  /\ sh.queue # <<>>
  /\ LET rel  == Head(sh.queue)
         url  == ShRepoUrl \o <<"/">> \o rel
         dest == Join(sh.INSTALL_DIR, rel)
         tried == [sh EXCEPT !.attempted = Append(@, url), !.queue = Tail(@)]
     IN \/ /\ Served(rel)
           /\ sh' = [tried EXCEPT
                       !.files = (dest :> ShPayload(url)) @@ @,
                       !.out = Append(@, [name |-> Basename(dest), ok |-> TRUE])]
        \/ /\ Served(rel) => sh.faults < MaxFaults
           /\ LET failed == [tried EXCEPT
                               !.faults = IF Served(rel) THEN @ + 1 ELSE @,
                               !.out = Append(@, [name |-> Basename(dest), ok |-> FALSE])]
              IN sh' = IF ErrExit THEN ShExit(failed, 1) ELSE failed
  /\ NodeIdle

\* the loops are over: "Installation complete!", and main returns
ShComplete ==
  /\ sh.pc = "download"
  /\ sh.queue = <<>>
  /\ sh' = [ShExit(sh, 0) EXCEPT !.complete = TRUE]
  /\ NodeIdle

ShNext ==
  \/ ShHelp
  \/ ShCheckRequirements
  \/ ShInstallDir
  \/ ShSelectAll
  \/ ShSelect
  \/ ShMkdir
  \/ ShDownload
  \/ ShComplete

SpecShell == ShInit /\ [][ShNext]_vars

\* a download of the script failed
ShFailed == \E i \in 1..Len(sh.out) : ~sh.out[i].ok

\* C21 as stated: in the shell installer a failed download does not abort the
\* run: a run that has ended after a download failed has attempted every file
\* of the selection and has printed its completion message.
C21_DownloadFailureDoesNotAbort ==
  (sh.pc = "exit" /\ ShFailed) => (sh.queue = <<>> /\ sh.complete)

\* the options the user chose by the line typed at the numbered menu
Chosen(options, selection) == Words(Answer(options, selection))

\* the value select_options gave for the k-th category
CapturedAt(k) == sh[ShCategories[k].var]

\* C28 as stated: in the numbered-menu mode the value captured from
\* select_options consists of exactly the options chosen by the line typed,
\* in the order typed (all of them for 'all', none for an empty line, words
\* that are no number of the menu ignored), and only files of chosen options
\* are downloaded besides SKILL.md and api.md.
C28_MenuCapturesChosen ==
  (sh.pc # "none" /\ ~sh.fzf /\ ~sh.INSTALL_ALL) =>
     /\ \A k \in 1..Len(sh.typed) :
           Words(CapturedAt(k)) = Chosen(ShCategories[k].options, sh.typed[k])
     /\ \A i \in 1..Len(sh.attempted) :
           \/ i <= 2
           \/ \E k \in 1..Len(sh.typed) :
                 \E v \in Range(Chosen(ShCategories[k].options, sh.typed[k])) :
                    sh.attempted[i] = ShRepoUrl \o <<"/">> \o ShCategories[k].dir \o <<v, ".md">>

============================================================================
